---- MODULE Spec2Model ----
(***************************************************************************)
(* Model of generateErc20PermitSignature                                   *)
(* (src/src/handlers/generate-erc20-permit.ts).                            *)
(*                                                                         *)
(* One invocation is a sequence of steps separated by the handler's awaits *)
(* and throws.  Several invocations live in "slots"; a slot is called,     *)
(* runs to a permit or to an error, and is then handed back to the caller. *)
(*                                                                         *)
(* Representations:                                                        *)
(*   - a JS string that the code builds or parses (the nonce pre-image,    *)
(*     amount.toString(), bigint.toString()) is a sequence of one-char     *)
(*     strings; strings that are only passed around (addresses, user       *)
(*     names, ciphertexts) are TLA+ strings;                               *)
(*   - a bigint is its sequence of decimal digits, most significant first, *)
(*     without leading zeros (MaxInt256 does not fit TLC's integers);      *)
(*   - a JS number used as an amount is m / 10^k, written [m |-> m, k |-> k]*)
(*     with k = 0 or m not divisible by 10.                                *)
(***************************************************************************)
EXTENDS Integers, Sequences, FiniteSets, TLC

\* ------------------------------------------------------------------ bounds

\* Token decimals answered by the token contract range over 0..MaxDecimals.
MaxDecimals == 6

\* ------------------------------------------------------- JS value helpers

Null == "<null>"
Undefined == "<undefined>"

\* !v for a value that is a string, null or undefined
FalsyStr(v) == v \in {Null, Undefined, ""}

\* !n for a number
FalsyNum(n) == n = 0

RECURSIVE Pow10(_)
Pow10(n) == IF n = 0 THEN 1 ELSE 10 * Pow10(n - 1)

DigitChar == <<"0", "1", "2", "3", "4", "5", "6", "7", "8", "9">>

CharDigit(c) == CHOOSE d \in 0..9 : DigitChar[d + 1] = c

IsDigitChar(c) == \E d \in 0..9 : DigitChar[d + 1] = c

\* decimal digits of a natural number, most significant first
RECURSIVE NatDigits(_)
NatDigits(n) == IF n < 10 THEN <<n>> ELSE Append(NatDigits(n \div 10), n % 10)

\* value of a digit sequence (only for sequences that fit TLC's integers)
RECURSIVE DigitsNat(_)
DigitsNat(ds) ==
  IF ds = <<>> THEN 0 ELSE 10 * DigitsNat(SubSeq(ds, 1, Len(ds) - 1)) + ds[Len(ds)]

\* Number.prototype.toString for a non-negative integer
IntToString(n) == [i \in 1..Len(NatDigits(n)) |-> DigitChar[NatDigits(n)[i] + 1]]

RECURSIVE StripLeadingZeros(_)
StripLeadingZeros(ds) ==
  IF Len(ds) > 1 /\ ds[1] = 0 THEN StripLeadingZeros(Tail(ds)) ELSE ds

\* BigInt(s) for a string of decimal digits
BigIntOfString(s) == StripLeadingZeros([i \in 1..Len(s) |-> CharDigit(s[i])])

\* bigint.toString()
BigIntToString(b) == [i \in 1..Len(b) |-> DigitChar[b[i] + 1]]

\* bigint of a natural number
BigIntOfNat(n) == NatDigits(n)

Zeros(n) == [i \in 1..n |-> "0"]

\* ---------------------------------------------------------------- MaxInt256

\* ethers MaxInt256 = 2^255 - 1 =
\* 57896044618658097711785492504343953926634992332820282019728792003956564819967
MaxInt256 ==
  <<5, 7, 8, 9, 6, 0, 4, 4, 6, 1, 8, 6, 5, 8, 0, 9, 7, 7, 1, 1,
    7, 8, 5, 4, 9, 2, 5, 0, 4, 3, 4, 3, 9, 5, 3, 9, 2, 6, 6, 3,
    4, 9, 9, 2, 3, 3, 2, 8, 2, 0, 2, 8, 2, 0, 1, 9, 7, 2, 8, 7,
    9, 2, 0, 0, 3, 9, 5, 6, 5, 6, 4, 8, 1, 9, 9, 6, 7>>


\* ------------------------------------------------------------ amount scaling

\* position of the first "." in s, or 0
DotAt(s) ==
  IF \E i \in 1..Len(s) : s[i] = "."
    THEN CHOOSE i \in 1..Len(s) : s[i] = "." /\ \A j \in 1..(i - 1) : s[j] # "."
    ELSE 0

\* amount.toString() for the number a.m / 10^a.k (plain decimal notation)
NumberToString(a) ==
  LET whole == a.m \div Pow10(a.k)
      frac == NatDigits(a.m % Pow10(a.k))
      fracChars == Zeros(a.k - Len(frac)) \o [i \in 1..Len(frac) |-> DigitChar[frac[i] + 1]]
  IN  IF a.k = 0 THEN IntToString(whole) ELSE IntToString(whole) \o <<".">> \o fracChars

\* parseUnits that does not pad the fraction to `decimals` digits
parseUnitsWithoutPadding(value, decimals) ==
  LET dot == DotAt(value)
      wholePart == IF dot = 0 THEN value ELSE SubSeq(value, 1, dot - 1)
      decimalPart == IF dot = 0 THEN <<>> ELSE SubSeq(value, dot + 1, Len(value))
  IN  IF Len(decimalPart) > decimals
        THEN [ok |-> FALSE, error |-> "Error: too many decimals for format"]
        ELSE [ok |-> TRUE, value |-> BigIntOfString(wholePart \o decimalPart)]

\* ethers parseUnits(value, decimals) = FixedNumber.fromString(value, {decimals}).value:
\* split at the point, pad the fraction with zeros to `decimals` digits, reject a
\* fraction with non-zero digits beyond them, read whole + fraction as one integer.
parseUnits(value, decimals) ==
  LET dot == DotAt(value)
      wholePart == IF dot = 0 THEN value ELSE SubSeq(value, 1, dot - 1)
      decimalPart == IF dot = 0 THEN <<>> ELSE SubSeq(value, dot + 1, Len(value))
      whole == IF wholePart = <<>> THEN <<"0">> ELSE wholePart
      padded == IF Len(decimalPart) < decimals
                  THEN decimalPart \o Zeros(decimals - Len(decimalPart))
                  ELSE decimalPart
      extra == SubSeq(padded, decimals + 1, Len(padded))
  IN  IF Len(wholePart) + Len(decimalPart) = 0
           \/ \E i \in 1..Len(value) : i # dot /\ ~IsDigitChar(value[i])
        THEN [ok |-> FALSE, error |-> "TypeError: invalid FixedNumber string value"]
        ELSE IF \E i \in 1..Len(extra) : extra[i] # "0"
          THEN [ok |-> FALSE, error |-> "Error: too many decimals for format"]
          ELSE [ok |-> TRUE, value |-> BigIntOfString(whole \o SubSeq(padded, 1, decimals))]

\* --------------------------------------------------------------------- nonce

\* characters that occur in user ids and node ids of the model
Alphabet == <<"-", "0", "1", "2", "3", "4", "5", "6", "7", "8", "9">>

CharCode(c) == CHOOSE i \in 1..Len(Alphabet) : Alphabet[i] = c

RECURSIVE keccak256(_)
\* keccak256(toUtf8Bytes(s)): a hash without collisions on the strings of the
\* model, as the number that reads s in base Len(Alphabet) + 1 with digits 1..Len(Alphabet)
keccak256(s) ==
  IF s = <<>> THEN 0
  ELSE (Len(Alphabet) + 1) * keccak256(SubSeq(s, 1, Len(s) - 1)) + CharCode(s[Len(s)])

\* the nonce pre-image without the separator between user id and node id
NonceInputWithoutSeparator(userId, issueNodeId) == IntToString(userId) \o issueNodeId

\* `${_userId}-${_issueNodeId}`
NonceInput(userId, issueNodeId) == IntToString(userId) \o <<"-">> \o issueNodeId

\* BigInt(keccak256(toUtf8Bytes(`${_userId}-${_issueNodeId}`)))
DeriveNonce(userId, issueNodeId) == BigIntOfNat(keccak256(NonceInput(userId, issueNodeId)))

\* ------------------------------------------------------------- key material

\* process.env.X25519_PRIVATE_KEY: set to the deployment's secret, or unset
EnvSecrets == {"x25519-secret", Undefined}

\* String(process.env.X25519_PRIVATE_KEY)
StringOf(v) == IF v = Undefined THEN "undefined" ELSE v

\* what a sealed box can hold: a usable key, another usable key, a string that
\* is no private key, and a record without a private key
Plaintexts == {"K1", "K2", "not-a-key", ""}

\* an encrypted key: a box sealed for a secret ("garbage": a corrupted box
\* that no secret opens)
Ciphertexts ==
  {[sealedFor |-> "x25519-secret", plain |-> p] : p \in Plaintexts}
    \cup {[sealedFor |-> "garbage", plain |-> ""]}

\* decrypt(cipherText, x25519PrivateKey)
decrypt(cipherText, secret) ==
  IF cipherText.sealedFor = secret
    THEN [ok |-> TRUE, value |-> cipherText.plain]
    ELSE [ok |-> FALSE, error |-> "Error: incorrect key pair for the given ciphertext"]

\* parseDecryptedPrivateKey(decrypted).privateKey
parseDecryptedPrivateKey(decrypted) ==
  [privateKey |-> IF decrypted = "" THEN Null ELSE decrypted]

ValidKeys == {"K1", "K2"}

\* new ethers.Wallet(privateKey, provider).address
AddressOf(privateKey) == IF privateKey = "K1" THEN "0xA1" ELSE "0xA2"

\* ------------------------------------------------------ typed data, signing

PERMIT2_ADDRESS == "0x000000000022D473030F116dDEE9F6B43aC78BA3"

ValidAddresses == {"0xB1", "0xB2", "0xT1", "0xT2"}

None == [some |-> FALSE]
Some(v) == [some |-> TRUE, val |-> v]

\* SignatureTransfer.getPermitData(permit, permit2Address, chainId)
getPermitData(permit, permit2Address, chainId) ==
  [domain |-> [name |-> Some("Permit2"), version |-> None, chainId |-> Some(chainId),
               verifyingContract |-> Some(permit2Address), salt |-> None],
   types |-> "PermitTransferFrom",
   values |-> permit]

\* the domain object the handler passes to signTypedData
SignedDomain(domain) ==
  [name |-> domain.name,
   version |-> domain.version,
   chainId |-> IF domain.chainId.some /\ ~FalsyNum(domain.chainId.val)
                 THEN Some(IntToString(domain.chainId.val)) ELSE None,
   verifyingContract |-> domain.verifyingContract,
   salt |-> IF domain.salt.some THEN Some(IntToString(domain.salt.val)) ELSE None]

DomainFields == {"name", "version", "chainId", "verifyingContract", "salt"}

\* ethers TypedDataEncoder.hash(domain, types, values): the domain separator
\* covers exactly the fields that are present, big numbers by value
TypedDataHash(domain, types, values) ==
  [domain |-> [f \in {g \in DomainFields : domain[g].some} |->
                 IF f \in {"chainId", "salt"} THEN BigIntOfString(domain[f].val)
                 ELSE domain[f].val],
   types |-> types,
   values |-> values]

\* wallet.signTypedData(domain, types, values) resolves when every address of
\* the values is an address, and rejects otherwise
CanSign(values) == values.spender \in ValidAddresses /\ values.permitted.token \in ValidAddresses

\* the signature of `digest` by `privateKey`
SignatureOf(privateKey, digest) == [recovers |-> AddressOf(privateKey), digest |-> digest]

\* ecrecover: the signer of `signature` over `digest`
recoverAddress(digest, signature) ==
  IF signature.digest = digest THEN signature.recovers ELSE "0x<unrelated>"


\* --------------------------------------------------------------- invocations

\* slots in which an invocation can run
Slots == {1, 2}

VARIABLES
  env,      \* process.env.X25519_PRIVATE_KEY
  pc,       \* slot -> where its invocation stands
  args,     \* slot -> the arguments of its call
  local,    \* slot -> the handler's local variables
  outcome,  \* slot -> nothing yet, the PermitReward returned, or the Error thrown
  trace,    \* slot -> the steps its invocation has executed, in order, each
            \*         with the answer of the collaborator it awaited
  cause     \* slot -> the text of the underlying failure that ended it, "" for none

vars == <<env, pc, args, local, outcome, trace, cause>>

UserNames == {"alice", ""}
UserIds == {1, 12}
NodeIds == {<<"3">>, <<"2", "3">>, <<"2", "-", "3">>}
NetworkIds == {0, 1, 100}
WalletAddresses == {Null, "", "0xB1", "not-an-address"}
TokenAddresses == {"0xT1", "0xT2"}
Amounts == {[m |-> 0, k |-> 0], [m |-> 15, k |-> 1], [m |-> 25, k |-> 2], [m |-> 20, k |-> 0]}

\* interface Payload (the logger is left out: it only receives messages)
Payloads ==
  [shape : {"Payload"}, evmNetworkId : NetworkIds, evmPrivateEncrypted : Ciphertexts,
   walletAddress : WalletAddresses, issueNodeId : NodeIds, userId : UserIds]

\* the event payloads of a Context: with an issue, a pull request, both or neither
EventPayloads ==
  [issue : {None} \cup {Some(n) : n \in NodeIds},
   pull_request : {None, Some(<<"3">>)}]

\* the parts of a Context that the handler reads
Contexts ==
  [shape : {"Context"}, config : [evmNetworkId : NetworkIds, evmPrivateEncrypted : Ciphertexts],
   payload : EventPayloads]

\* every call of the handler
Requests ==
  [contextOrPayload : Payloads \cup Contexts, username : UserNames,
   amount : Amounts, tokenAddress : TokenAddresses]

NoArgs == [contextOrPayload |-> [shape |-> "None"]]

NoLocals ==
  [_walletAddress |-> Undefined, _issueNodeId |-> Undefined, _evmNetworkId |-> Undefined,
   _evmPrivateEncrypted |-> Undefined, _userId |-> Undefined, provider |-> Undefined,
   privateKey |-> Null, adminWallet |-> Undefined, tokenDecimals |-> Undefined,
   permitTransferFromData |-> Undefined, typedData |-> Undefined, signature |-> Undefined]

NoOutcome == [kind |-> "none"]

\* new Error(`${text}${detail}`)
Message(text, detail) == [text |-> text, detail |-> detail]

\* answers of the collaborators that the handler awaits
UserLookupAnswers ==
  {[ok |-> TRUE, data |-> Some([id |-> u])] : u \in UserIds}
    \cup {[ok |-> TRUE, data |-> None], [ok |-> FALSE, error |-> "HttpError: Not Found"]}

WalletLookupAnswers ==
  {[ok |-> TRUE, value |-> w] : w \in WalletAddresses}
    \cup {[ok |-> FALSE, error |-> "Error: wallet lookup failed"]}

ProviderAnswers == {[ok |-> TRUE, value |-> "rpc"], [ok |-> TRUE, value |-> Null]}

\* the answer recorded for a step that awaits no collaborator
NoAnswer == [ok |-> TRUE]

DecimalsAnswers ==
  {[ok |-> TRUE, value |-> d] : d \in 0..MaxDecimals}
    \cup {[ok |-> FALSE, error |-> "Error: call revert exception"]}

Init ==
  /\ env \in EnvSecrets
  /\ pc = [i \in Slots |-> "idle"]
  /\ args = [i \in Slots |-> NoArgs]
  /\ local = [i \in Slots |-> NoLocals]
  /\ outcome = [i \in Slots |-> NoOutcome]
  /\ trace = [i \in Slots |-> <<>>]
  /\ cause = [i \in Slots |-> ""]

\* the step `stage` of slot i runs and is answered `answer`
Enter(i, stage, answer) ==
  trace' = [trace EXCEPT ![i] = Append(@, [step |-> stage, answer |-> answer])]

\* slot i goes on at `label`
Goto(i, label) ==
  /\ pc' = [pc EXCEPT ![i] = label]
  /\ UNCHANGED <<outcome, cause>>

\* slot i ends with the error `message`; `underlying` is the text of the
\* failure behind it
Throw(i, message, underlying) ==
  /\ pc' = [pc EXCEPT ![i] = "failed"]
  /\ outcome' = [outcome EXCEPT ![i] = [kind |-> "error", message |-> message]]
  /\ cause' = [cause EXCEPT ![i] = underlying]

\* generateErc20PermitSignature(contextOrPayload, username, amount, tokenAddress),
\* called with one of `requests`
Call(i, requests) ==
  /\ pc[i] = "idle"
  /\ \E request \in requests : args' = [args EXCEPT ![i] = request]
  /\ pc' = [pc EXCEPT ![i] = "start"]
  /\ UNCHANGED <<env, local, outcome, trace, cause>>

\* "issueNodeId" in contextOrPayload: copy the payload, or start on the context
Dispatch(i) ==
  /\ pc[i] = "start"
  /\ LET cp == args[i].contextOrPayload
     IN  IF cp.shape = "Payload"
           THEN /\ local' = [local EXCEPT ![i]._walletAddress = cp.walletAddress,
                                          ![i]._evmNetworkId = cp.evmNetworkId,
                                          ![i]._evmPrivateEncrypted = cp.evmPrivateEncrypted,
                                          ![i]._issueNodeId = cp.issueNodeId,
                                          ![i]._userId = cp.userId]
                /\ Goto(i, "validate")
           ELSE /\ UNCHANGED local
                /\ Goto(i, "getByUsername")
  /\ UNCHANGED <<env, args, trace>>

\* await octokit.users.getByUsername({ username })
GetByUsername(i) ==
  /\ pc[i] = "getByUsername"
  /\ \E answer \in UserLookupAnswers :
       /\ Enter(i, "UserLookup", answer)
       /\ IF ~answer.ok
            THEN /\ Throw(i, Message("", answer.error), answer.error)
                 /\ UNCHANGED local
            ELSE IF ~answer.data.some
              THEN /\ Throw(i, Message("GitHub user was not found for id ", args[i].username), "")
                   /\ UNCHANGED local
              ELSE /\ local' = [local EXCEPT ![i]._userId = answer.data.val.id]
                   /\ Goto(i, "getWalletByUserId")
  /\ UNCHANGED <<env, args>>

\* GetWalletByUserId taking the node id of the pull request before the issue's
GetWalletByUserIdPullRequestFirst(i) ==
  /\ pc[i] = "getWalletByUserId"
  /\ \E answer \in WalletLookupAnswers :
       LET cp == args[i].contextOrPayload
           withWallet == [local EXCEPT ![i]._walletAddress = answer.value,
                                       ![i]._evmNetworkId = cp.config.evmNetworkId,
                                       ![i]._evmPrivateEncrypted = cp.config.evmPrivateEncrypted]
       IN  /\ Enter(i, "WalletLookup", answer)
           /\ IF ~answer.ok
                THEN /\ Throw(i, Message("", answer.error), answer.error)
                     /\ UNCHANGED local
                ELSE IF cp.payload.pull_request.some
                  THEN /\ local' = [withWallet EXCEPT
                                      ![i]._issueNodeId = cp.payload.pull_request.val]
                       /\ Goto(i, "validate")
                  ELSE IF cp.payload.issue.some
                    THEN /\ local' = [withWallet EXCEPT ![i]._issueNodeId = cp.payload.issue.val]
                         /\ Goto(i, "validate")
                    ELSE /\ local' = withWallet
                         /\ Throw(i, Message("Issue Id is missing", ""), "")
  /\ UNCHANGED <<env, args>>

\* await wallet.getWalletByUserId(_userId), then the network id, the encrypted
\* key and the node id of the issue or of the pull request
GetWalletByUserId(i) ==
  /\ pc[i] = "getWalletByUserId"
  /\ \E answer \in WalletLookupAnswers :
       LET cp == args[i].contextOrPayload
           withWallet == [local EXCEPT ![i]._walletAddress = answer.value,
                                       ![i]._evmNetworkId = cp.config.evmNetworkId,
                                       ![i]._evmPrivateEncrypted = cp.config.evmPrivateEncrypted]
       IN  /\ Enter(i, "WalletLookup", answer)
           /\ IF ~answer.ok
                THEN /\ Throw(i, Message("", answer.error), answer.error)
                     /\ UNCHANGED local
                ELSE IF cp.payload.issue.some
                  THEN /\ local' = [withWallet EXCEPT ![i]._issueNodeId = cp.payload.issue.val]
                       /\ Goto(i, "validate")
                  ELSE IF cp.payload.pull_request.some
                    THEN /\ local' = [withWallet EXCEPT
                                        ![i]._issueNodeId = cp.payload.pull_request.val]
                         /\ Goto(i, "validate")
                    ELSE /\ local' = withWallet
                         /\ Throw(i, Message("Issue Id is missing", ""), "")
  /\ UNCHANGED <<env, args>>

\* Validate without the check of the wallet address
ValidateWithoutWalletCheck(i) ==
  /\ pc[i] = "validate"
  /\ Enter(i, "Validating", NoAnswer)
  /\ IF FalsyStr(args[i].username)
       THEN Throw(i, Message("User was not found", ""), "")
       ELSE Goto(i, "getFastestProvider")
  /\ UNCHANGED <<env, args, local>>

\* Validate that goes on to decryption and leaves provider selection out
ValidateThenDecrypt(i) ==
  /\ pc[i] = "validate"
  /\ Enter(i, "Validating", NoAnswer)
  /\ IF FalsyStr(args[i].username)
       THEN Throw(i, Message("User was not found", ""), "")
       ELSE IF FalsyStr(local[i]._walletAddress)
         THEN Throw(i, Message("ERC20 Permit generation error: Wallet not found", ""), "")
         ELSE Goto(i, "decrypt")
  /\ UNCHANGED <<env, args, local>>

\* if (!_username) ... if (!_walletAddress) ...
Validate(i) ==
  /\ pc[i] = "validate"
  /\ Enter(i, "Validating", NoAnswer)
  /\ IF FalsyStr(args[i].username)
       THEN Throw(i, Message("User was not found", ""), "")
       ELSE IF FalsyStr(local[i]._walletAddress)
         THEN Throw(i, Message("ERC20 Permit generation error: Wallet not found", ""), "")
         ELSE Goto(i, "getFastestProvider")
  /\ UNCHANGED <<env, args, local>>

\* await getFastestProvider(_evmNetworkId); if (!provider) ...
GetFastestProvider(i) ==
  /\ pc[i] = "getFastestProvider"
  /\ \E answer \in ProviderAnswers :
       /\ Enter(i, "Resolving", answer)
       /\ IF FalsyStr(answer.value)
            THEN /\ Throw(i, Message("Provider is not defined", ""), "")
                 /\ UNCHANGED local
            ELSE /\ local' = [local EXCEPT ![i].provider = answer.value]
                 /\ Goto(i, "decrypt")
  /\ UNCHANGED <<env, args>>

\* Decrypt whose catch block does not throw again
DecryptSwallowingError(i) ==
  /\ pc[i] = "decrypt"
  /\ Enter(i, "Decrypting", NoAnswer)
  /\ LET privateKeyDecrypted == decrypt(local[i]._evmPrivateEncrypted, StringOf(env))
     IN  local' = [local EXCEPT ![i].privateKey =
                     IF privateKeyDecrypted.ok
                       THEN parseDecryptedPrivateKey(privateKeyDecrypted.value).privateKey
                       ELSE Null]
  /\ Goto(i, "wallet")
  /\ UNCHANGED <<env, args>>

\* Decrypt that keeps the decrypted key in a variable shared by all
\* invocations, and reuses the key that another invocation has put there
DecryptWithSharedKey(i) ==
  /\ pc[i] = "decrypt"
  /\ Enter(i, "Decrypting", NoAnswer)
  /\ LET privateKeyDecrypted == decrypt(local[i]._evmPrivateEncrypted, StringOf(env))
         cached == {local[j].privateKey : j \in Slots \ {i}} \cap ValidKeys
         privateKey == IF cached # {} THEN CHOOSE k \in cached : TRUE
                       ELSE parseDecryptedPrivateKey(privateKeyDecrypted.value).privateKey
     IN  IF cached = {} /\ ~privateKeyDecrypted.ok
           THEN /\ Throw(i, Message("Failed to decrypt a private key: ", privateKeyDecrypted.error),
                         privateKeyDecrypted.error)
                /\ UNCHANGED local
           ELSE IF FalsyStr(privateKey)
             THEN /\ Throw(i, Message("Failed to decrypt a private key: ",
                                      "Error: Private key is not defined"),
                           "Error: Private key is not defined")
                  /\ local' = [local EXCEPT ![i].privateKey = privateKey]
             ELSE /\ local' = [local EXCEPT ![i].privateKey = privateKey]
                  /\ Goto(i, "wallet")
  /\ UNCHANGED <<env, args>>

\* try { decrypt, parseDecryptedPrivateKey, if (!privateKey) throw } catch { throw }
Decrypt(i) ==
  /\ pc[i] = "decrypt"
  /\ Enter(i, "Decrypting", NoAnswer)
  /\ LET privateKeyDecrypted == decrypt(local[i]._evmPrivateEncrypted, StringOf(env))
         privateKeyParsed == parseDecryptedPrivateKey(privateKeyDecrypted.value)
     IN  IF ~privateKeyDecrypted.ok
           THEN /\ Throw(i, Message("Failed to decrypt a private key: ", privateKeyDecrypted.error),
                         privateKeyDecrypted.error)
                /\ UNCHANGED local
           ELSE IF FalsyStr(privateKeyParsed.privateKey)
             THEN /\ Throw(i, Message("Failed to decrypt a private key: ",
                                      "Error: Private key is not defined"),
                           "Error: Private key is not defined")
                  /\ local' = [local EXCEPT ![i].privateKey = privateKeyParsed.privateKey]
             ELSE /\ local' = [local EXCEPT ![i].privateKey = privateKeyParsed.privateKey]
                  /\ Goto(i, "wallet")
  /\ UNCHANGED <<env, args>>

\* try { adminWallet = new ethers.Wallet(privateKey, provider) } catch { throw }
InstantiateWallet(i) ==
  /\ pc[i] = "wallet"
  /\ Enter(i, "InstantiatingWallet", NoAnswer)
  /\ IF local[i].privateKey \in ValidKeys
       THEN /\ local' = [local EXCEPT ![i].adminWallet =
                           [address |-> AddressOf(local[i].privateKey),
                            privateKey |-> local[i].privateKey]]
            /\ Goto(i, "decimals")
       ELSE /\ Throw(i, Message("Failed to instantiate wallet: ", "TypeError: invalid private key"),
                     "TypeError: invalid private key")
            /\ UNCHANGED local
  /\ UNCHANGED <<env, args>>

\* FetchDecimals that reads the decimals again when the read fails
FetchDecimalsRetrying(i) ==
  /\ pc[i] = "decimals"
  /\ \E answer \in DecimalsAnswers :
       /\ Enter(i, "FetchingDecimals", answer)
       /\ IF answer.ok
            THEN /\ local' = [local EXCEPT ![i].tokenDecimals = answer.value]
                 /\ Goto(i, "build")
            ELSE /\ Goto(i, "decimals")
                 /\ UNCHANGED local
  /\ UNCHANGED <<env, args>>

\* try { tokenDecimals = await tokenContract.decimals() } catch { throw }
FetchDecimals(i) ==
  /\ pc[i] = "decimals"
  /\ \E answer \in DecimalsAnswers :
       /\ Enter(i, "FetchingDecimals", answer)
       /\ IF answer.ok
            THEN /\ local' = [local EXCEPT ![i].tokenDecimals = answer.value]
                 /\ Goto(i, "build")
            ELSE /\ Throw(i, Message("Failed to get token decimals for token: ",
                                     args[i].tokenAddress), answer.error)
                 /\ UNCHANGED local
  /\ UNCHANGED <<env, args>>

\* BuildPayload whose nonce also counts the permits handed out so far
BuildPayloadCountingNonce(i) ==
  /\ pc[i] = "build"
  /\ Enter(i, "BuildingPayload", NoAnswer)
  /\ LET amount == parseUnits(NumberToString(args[i].amount), local[i].tokenDecimals)
         issued == Cardinality({j \in Slots : pc[j] = "done"})
         permitTransferFromData ==
           [permitted |-> [token |-> args[i].tokenAddress, amount |-> amount.value],
            spender |-> local[i]._walletAddress,
            nonce |-> BigIntOfNat(keccak256(NonceInput(local[i]._userId, local[i]._issueNodeId))
                                    + issued),
            deadline |-> MaxInt256]
     IN  IF ~amount.ok
           THEN /\ Throw(i, Message("", amount.error), amount.error)
                /\ UNCHANGED local
           ELSE /\ local' = [local EXCEPT
                               ![i].permitTransferFromData = permitTransferFromData,
                               ![i].typedData = getPermitData(permitTransferFromData, PERMIT2_ADDRESS,
                                                              local[i]._evmNetworkId)]
                /\ Goto(i, "sign")
  /\ UNCHANGED <<env, args>>

\* BuildPayload whose nonce also depends on the token address
BuildPayloadNonceWithToken(i) ==
  /\ pc[i] = "build"
  /\ Enter(i, "BuildingPayload", NoAnswer)
  /\ LET amount == parseUnits(NumberToString(args[i].amount), local[i].tokenDecimals)
         salt == IF args[i].tokenAddress = "0xT1" THEN 0 ELSE 1
         permitTransferFromData ==
           [permitted |-> [token |-> args[i].tokenAddress, amount |-> amount.value],
            spender |-> local[i]._walletAddress,
            nonce |-> BigIntOfNat(keccak256(NonceInput(local[i]._userId, local[i]._issueNodeId))
                                    + salt),
            deadline |-> MaxInt256]
     IN  IF ~amount.ok
           THEN /\ Throw(i, Message("", amount.error), amount.error)
                /\ UNCHANGED local
           ELSE /\ local' = [local EXCEPT
                               ![i].permitTransferFromData = permitTransferFromData,
                               ![i].typedData = getPermitData(permitTransferFromData, PERMIT2_ADDRESS,
                                                              local[i]._evmNetworkId)]
                /\ Goto(i, "sign")
  /\ UNCHANGED <<env, args>>

\* permitTransferFromData = {...}; SignatureTransfer.getPermitData(...)
BuildPayload(i) ==
  /\ pc[i] = "build"
  /\ Enter(i, "BuildingPayload", NoAnswer)
  /\ LET amount == parseUnits(NumberToString(args[i].amount), local[i].tokenDecimals)
         permitTransferFromData ==
           [permitted |-> [token |-> args[i].tokenAddress, amount |-> amount.value],
            spender |-> local[i]._walletAddress,
            nonce |-> DeriveNonce(local[i]._userId, local[i]._issueNodeId),
            deadline |-> MaxInt256]
     IN  IF ~amount.ok
           THEN /\ Throw(i, Message("", amount.error), amount.error)
                /\ UNCHANGED local
           ELSE /\ local' = [local EXCEPT
                               ![i].permitTransferFromData = permitTransferFromData,
                               ![i].typedData = getPermitData(permitTransferFromData, PERMIT2_ADDRESS,
                                                              local[i]._evmNetworkId)]
                /\ Goto(i, "sign")
  /\ UNCHANGED <<env, args>>

\* await adminWallet.signTypedData({...}, types, values).catch(...)
Sign(i) ==
  /\ pc[i] = "sign"
  /\ Enter(i, "Signing", NoAnswer)
  /\ LET td == local[i].typedData
     IN  IF CanSign(td.values)
           THEN /\ local' = [local EXCEPT ![i].signature =
                               SignatureOf(local[i].adminWallet.privateKey,
                                           TypedDataHash(SignedDomain(td.domain), td.types, td.values))]
                /\ Goto(i, "assemble")
           ELSE /\ Throw(i, Message("Failed to sign typed data ", "TypeError: invalid address"),
                         "TypeError: invalid address")
                /\ UNCHANGED local
  /\ UNCHANGED <<env, args>>

TokenType == [ERC20 |-> "ERC20", ERC721 |-> "ERC721"]

\* Assemble that reports the signer's address as the beneficiary
AssembleOwnerAsBeneficiary(i) ==
  /\ pc[i] = "assemble"
  /\ Enter(i, "Assembled", NoAnswer)
  /\ LET p == local[i].permitTransferFromData
     IN  outcome' = [outcome EXCEPT ![i] =
           [kind |-> "permit",
            permit |-> [tokenType |-> TokenType.ERC20,
                        tokenAddress |-> p.permitted.token,
                        beneficiary |-> local[i].adminWallet.address,
                        nonce |-> BigIntToString(p.nonce),
                        deadline |-> BigIntToString(p.deadline),
                        amount |-> BigIntToString(p.permitted.amount),
                        owner |-> local[i].adminWallet.address,
                        signature |-> local[i].signature,
                        networkId |-> local[i]._evmNetworkId]]]
  /\ pc' = [pc EXCEPT ![i] = "done"]
  /\ UNCHANGED <<env, args, local, cause>>

\* erc20Permit = {...}; return erc20Permit
Assemble(i) ==
  /\ pc[i] = "assemble"
  /\ Enter(i, "Assembled", NoAnswer)
  /\ LET p == local[i].permitTransferFromData
     IN  outcome' = [outcome EXCEPT ![i] =
           [kind |-> "permit",
            permit |-> [tokenType |-> TokenType.ERC20,
                        tokenAddress |-> p.permitted.token,
                        beneficiary |-> p.spender,
                        nonce |-> BigIntToString(p.nonce),
                        deadline |-> BigIntToString(p.deadline),
                        amount |-> BigIntToString(p.permitted.amount),
                        owner |-> local[i].adminWallet.address,
                        signature |-> local[i].signature,
                        networkId |-> local[i]._evmNetworkId]]]
  /\ pc' = [pc EXCEPT ![i] = "done"]
  /\ UNCHANGED <<env, args, local, cause>>

\* the caller has the PermitReward or the Error of slot i; the invocation's
\* variables are gone and the slot is free for the next call
Return(i) ==
  /\ pc[i] \in {"done", "failed"}
  /\ pc' = [pc EXCEPT ![i] = "idle"]
  /\ args' = [args EXCEPT ![i] = NoArgs]
  /\ local' = [local EXCEPT ![i] = NoLocals]
  /\ outcome' = [outcome EXCEPT ![i] = NoOutcome]
  /\ trace' = [trace EXCEPT ![i] = <<>>]
  /\ cause' = [cause EXCEPT ![i] = ""]
  /\ UNCHANGED env

\* the step of slot i that its position allows
Step(i) ==
  \/ Dispatch(i)
  \/ GetByUsername(i)
  \/ GetWalletByUserId(i)
  \/ Validate(i)
  \/ GetFastestProvider(i)
  \/ Decrypt(i)
  \/ InstantiateWallet(i)
  \/ FetchDecimals(i)
  \/ BuildPayload(i)
  \/ Sign(i)
  \/ Assemble(i)
  \/ Return(i)

\* one invocation at a time, over every request
Next == Call(1, Requests) \/ Step(1)

Spec == Init /\ [][Next]_vars

\* the requests of concurrent invocations: one reward in both call shapes and
\* under both keys, for several users and events, a request without a key, one
\* without a wallet, and one for the same user and event with another token,
\* amount, beneficiary and network
BasePayload ==
  [shape |-> "Payload", evmNetworkId |-> 1,
   evmPrivateEncrypted |-> [sealedFor |-> "x25519-secret", plain |-> "K1"],
   walletAddress |-> "0xB1", issueNodeId |-> <<"3">>, userId |-> 1]

BaseRequest ==
  [contextOrPayload |-> BasePayload, username |-> "alice",
   amount |-> [m |-> 15, k |-> 1], tokenAddress |-> "0xT1"]

ConcRequests ==
  {[BaseRequest EXCEPT !.contextOrPayload.userId = p[1], !.contextOrPayload.issueNodeId = p[2]] :
     p \in {<<1, <<"3">>>>, <<1, <<"2", "3">>>>, <<12, <<"3">>>>, <<1, <<"2", "-", "3">>>>}}
  \cup {[BaseRequest EXCEPT !.contextOrPayload.evmPrivateEncrypted.plain = p] :
          p \in {"K2", ""}}
  \cup {[BaseRequest EXCEPT !.contextOrPayload.walletAddress = Null],
        [BaseRequest EXCEPT !.tokenAddress = "0xT2", !.amount = [m |-> 20, k |-> 0],
                            !.contextOrPayload.walletAddress = "0xB2",
                            !.contextOrPayload.evmNetworkId = 100],
        [BaseRequest EXCEPT !.contextOrPayload =
           [shape |-> "Context",
            config |-> [evmNetworkId |-> 1,
                        evmPrivateEncrypted |-> [sealedFor |-> "x25519-secret", plain |-> "K2"]],
            payload |-> [issue |-> Some(<<"3">>), pull_request |-> None]]]}

\* invocations in every slot, interleaved step by step
NextConc == \E i \in Slots : Call(i, ConcRequests) \/ Step(i)

SpecConc == Init /\ [][NextConc]_vars


\* ===================================================================== claims

Steps(i) == [k \in 1..Len(trace[i]) |-> trace[i][k].step]

InTrace(i, stage) == \E k \in 1..Len(trace[i]) : trace[i][k].step = stage

LastStep(i) == trace[i][Len(trace[i])].step

Called(i) == pc[i] # "idle"

Shape(i) == args[i].contextOrPayload.shape

WalletNotFound == Message("ERC20 Permit generation error: Wallet not found", "")

\* the beneficiary's wallet address is known to slot i and is absent or empty
WalletAbsent(i) ==
  \/ local[i]._walletAddress \in {Null, ""}
  \/ Shape(i) = "Payload" /\ args[i].contextOrPayload.walletAddress \in {Null, ""}

\* the steps that call over the network
NetworkSteps == {"UserLookup", "WalletLookup", "Resolving", "FetchingDecimals"}

\* the steps after validation
AfterValidation ==
  {"Resolving", "Decrypting", "InstantiatingWallet", "FetchingDecimals", "BuildingPayload",
   "Signing", "Assembled"}

EncryptedKeyOf(i) ==
  IF Shape(i) = "Payload" THEN args[i].contextOrPayload.evmPrivateEncrypted
  ELSE args[i].contextOrPayload.config.evmPrivateEncrypted

\* the encrypted key of slot i cannot be decrypted to a private key
Undecryptable(i) ==
  /\ Called(i)
  /\ LET d == decrypt(EncryptedKeyOf(i), StringOf(env))
     IN  ~d.ok \/ FalsyStr(parseDecryptedPrivateKey(d.value).privateKey)

DecryptionFailed(i) ==
  /\ outcome[i].kind = "error"
  /\ outcome[i].message.text = "Failed to decrypt a private key: "

\* C2 as stated, on the invocations that come to decrypt: the invocation has
\* failed with the decryption error and has made no network call.
C2_Original ==
  \A i \in Slots :
    Undecryptable(i) /\ InTrace(i, "Decrypting") =>
      /\ DecryptionFailed(i)
      /\ \A s \in NetworkSteps : ~InTrace(i, s)

\* C2 (amended): an invocation whose encrypted key cannot be decrypted never
\* instantiates the wallet, reads the token decimals, builds, signs or returns
\* a permit; once it has come to decrypt it has failed with the decryption
\* error and the cause; the provider had been selected before.
C2_DecryptionFailureStops ==
  \A i \in Slots :
    Undecryptable(i) =>
      /\ \A s \in {"InstantiatingWallet", "FetchingDecimals", "BuildingPayload", "Signing",
                   "Assembled"} : ~InTrace(i, s)
      /\ outcome[i].kind # "permit"
      /\ InTrace(i, "Decrypting") =>
           /\ pc[i] = "failed"
           /\ DecryptionFailed(i)
           /\ outcome[i].message.detail = cause[i] /\ cause[i] # ""
           /\ InTrace(i, "Resolving")

\* a corrupted ciphertext has failed the invocation at its decryption step
C2_Witness ==
  \E i \in Slots :
    /\ DecryptionFailed(i)
    /\ EncryptedKeyOf(i).sealedFor = "garbage"
    /\ LastStep(i) = "Decrypting"

\* the stages of the orchestrator, in order
StageOrder ==
  <<"Validating", "Resolving", "Decrypting", "FetchingDecimals", "BuildingPayload", "Signing",
    "Assembled">>

IsStage(step) == \E k \in 1..Len(StageOrder) : StageOrder[k] = step

\* the stages that slot i has entered, in order
StagesEntered(i) == SelectSeq(Steps(i), IsStage)

\* C3: the stages an invocation has entered are the first stages of the fixed
\* order, each entered after the one before it succeeded (wallet and user name
\* present before Resolving, a provider before Decrypting, a usable key before
\* FetchingDecimals); a permit is returned only after all seven, from
\* Assembled; an invocation that has failed executes no further step.
C3_StageOrder ==
  /\ [](\A i \in Slots :
          /\ StagesEntered(i) = SubSeq(StageOrder, 1, Len(StagesEntered(i)))
          /\ InTrace(i, "Resolving") =>
               ~FalsyStr(args[i].username) /\ ~FalsyStr(local[i]._walletAddress)
          /\ InTrace(i, "Decrypting") => ~FalsyStr(local[i].provider)
          /\ InTrace(i, "FetchingDecimals") => local[i].privateKey \in ValidKeys
          /\ (outcome[i].kind = "error") = (pc[i] = "failed")
          /\ outcome[i].kind = "permit" =>
               /\ pc[i] = "done"
               /\ StagesEntered(i) = StageOrder
               /\ LastStep(i) = "Assembled")
  /\ [][\A i \in Slots :
          pc[i] = "failed" =>
            \/ pc'[i] = "failed" /\ trace'[i] = trace[i] /\ outcome'[i] = outcome[i]
            \/ pc'[i] = "idle"]_vars

\* an invocation has entered six stages, in order, and failed in the sixth
C3_Witness ==
  \E i \in Slots :
    /\ pc[i] = "failed"
    /\ StagesEntered(i) = SubSeq(StageOrder, 1, 6)

\* the message texts that name each step that can fail
StageTexts ==
  [Validating |-> {"User was not found", "ERC20 Permit generation error: Wallet not found"},
   Resolving |-> {"Provider is not defined"},
   Decrypting |-> {"Failed to decrypt a private key: "},
   InstantiatingWallet |-> {"Failed to instantiate wallet: "},
   FetchingDecimals |-> {"Failed to get token decimals for token: "},
   BuildingPayload |-> {},
   Signing |-> {"Failed to sign typed data "}]

\* C4 as stated: the error of an invocation that failed in one of these steps
\* names the step, and carries the text of the underlying failure when there
\* is one.
C4_Claim ==
  \A i \in Slots :
    pc[i] = "failed" /\ LastStep(i) \in DOMAIN StageTexts =>
      /\ outcome[i].message.text \in StageTexts[LastStep(i)]
      /\ cause[i] # "" => outcome[i].message.detail = cause[i]

\* the typed-data hash that a verifier computes from the fields of a PermitReward:
\* Permit2's domain (name, chainId, verifyingContract) and PermitTransferFrom
VerifierHash(permit) ==
  [domain |-> [name |-> "Permit2",
               chainId |-> BigIntOfNat(permit.networkId),
               verifyingContract |-> PERMIT2_ADDRESS],
   types |-> "PermitTransferFrom",
   values |-> [permitted |-> [token |-> permit.tokenAddress,
                              amount |-> BigIntOfString(permit.amount)],
               spender |-> permit.beneficiary,
               nonce |-> BigIntOfString(permit.nonce),
               deadline |-> BigIntOfString(permit.deadline)]]

\* C7 as stated: the signer recovered from a returned permit's signature over
\* the typed data recomputed from the permit's own fields is the permit's owner.
C7_Claim ==
  \A i \in Slots :
    outcome[i].kind = "permit" =>
      recoverAddress(VerifierHash(outcome[i].permit), outcome[i].permit.signature)
        = outcome[i].permit.owner

\* the request's values of a slot whose inputs are all resolved
AmountOf(i) == args[i].amount
DecimalsOf(i) == local[i].tokenDecimals

\* slot i has built its permit data
Built(i) ==
  /\ InTrace(i, "BuildingPayload")
  /\ ~(pc[i] = "failed" /\ LastStep(i) = "BuildingPayload")

NetworkIdOf(i) ==
  IF Shape(i) = "Payload" THEN args[i].contextOrPayload.evmNetworkId
  ELSE args[i].contextOrPayload.config.evmNetworkId

\* C9: a returned permit has token type ERC20, the deadline MaxInt256, the
\* token address and network id of the request, the resolved wallet address as
\* beneficiary, and the nonce derived from the user id and the event id.
C9_PermitFields ==
  \A i \in Slots :
    outcome[i].kind = "permit" =>
      LET permit == outcome[i].permit
      IN  /\ permit.tokenType = "ERC20"
          /\ BigIntOfString(permit.deadline) = MaxInt256
          /\ permit.tokenAddress = args[i].tokenAddress
          /\ permit.beneficiary = local[i]._walletAddress
          /\ permit.networkId = NetworkIdOf(i)
          /\ permit.nonce = BigIntToString(DeriveNonce(local[i]._userId, local[i]._issueNodeId))

\* a permit for a wallet that the Context's lookup resolved, on network 100
C9_Witness ==
  \E i \in Slots :
    /\ outcome[i].kind = "permit"
    /\ Shape(i) = "Context"
    /\ outcome[i].permit.networkId = 100
    /\ outcome[i].permit.beneficiary = "0xB1"
    /\ outcome[i].permit.tokenAddress = "0xT2"

\* slots i and j resolved the same user, event, token, amount, beneficiary and
\* network, and read the same token decimals
SameInputs(i, j) ==
  /\ local[i]._userId = local[j]._userId
  /\ local[i]._issueNodeId = local[j]._issueNodeId
  /\ args[i].tokenAddress = args[j].tokenAddress
  /\ args[i].amount = args[j].amount
  /\ local[i]._walletAddress = local[j]._walletAddress
  /\ local[i]._evmNetworkId = local[j]._evmNetworkId
  /\ local[i].tokenDecimals = local[j].tokenDecimals

\* C5: two permits returned for the same user, event, token, amount,
\* beneficiary and network, under the same token decimals, have the same
\* nonce, token address, beneficiary, amount and deadline.
C5_Idempotence ==
  \A i, j \in Slots :
    outcome[i].kind = "permit" /\ outcome[j].kind = "permit" /\ SameInputs(i, j) =>
      /\ outcome[i].permit.nonce = outcome[j].permit.nonce
      /\ outcome[i].permit.tokenAddress = outcome[j].permit.tokenAddress
      /\ outcome[i].permit.beneficiary = outcome[j].permit.beneficiary
      /\ outcome[i].permit.amount = outcome[j].permit.amount
      /\ outcome[i].permit.deadline = outcome[j].permit.deadline

\* two permits for the same inputs, one from a Payload call and one from a
\* Context call, signed by different keys
C5_Witness ==
  \E i, j \in Slots :
    /\ outcome[i].kind = "permit" /\ outcome[j].kind = "permit"
    /\ SameInputs(i, j)
    /\ Shape(i) = "Payload" /\ Shape(j) = "Context"
    /\ outcome[i].permit.owner # outcome[j].permit.owner

\* C6: the nonces of two invocations are equal exactly when their (user id,
\* event id) pairs are equal, the hash being free of collisions.
C6_NonceInjective ==
  \A i, j \in Slots :
    Built(i) /\ Built(j) =>
      ((local[i].permitTransferFromData.nonce = local[j].permitTransferFromData.nonce)
         = (/\ local[i]._userId = local[j]._userId
            /\ local[i]._issueNodeId = local[j]._issueNodeId))

\* user 1 on event "23" and user 12 on event "3" have different nonces
C6_Witness ==
  \E i, j \in Slots :
    /\ Built(i) /\ Built(j)
    /\ local[i]._userId = 1 /\ local[i]._issueNodeId = <<"2", "3">>
    /\ local[j]._userId = 12 /\ local[j]._issueNodeId = <<"3">>
    /\ local[i].permitTransferFromData.nonce # local[j].permitTransferFromData.nonce

\* generateErc20PermitSignature run on its own: what a call with `request`
\* returns or throws under the secret `secret`, when its collaborators give
\* the answers recorded in `answers`
Solo(request, secret, answers) ==
  LET cp == request.contextOrPayload
      Answer(step) == answers[CHOOSE k \in 1..Len(answers) : answers[k].step = step].answer
      Error(text, detail) == [kind |-> "error", message |-> Message(text, detail)]
      isPayload == cp.shape = "Payload"
      userId == IF isPayload THEN cp.userId ELSE Answer("UserLookup").data.val.id
      walletAddress == IF isPayload THEN cp.walletAddress ELSE Answer("WalletLookup").value
      evmNetworkId == IF isPayload THEN cp.evmNetworkId ELSE cp.config.evmNetworkId
      encrypted == IF isPayload THEN cp.evmPrivateEncrypted ELSE cp.config.evmPrivateEncrypted
      issueNodeId == IF isPayload THEN cp.issueNodeId
                     ELSE IF cp.payload.issue.some THEN cp.payload.issue.val
                     ELSE cp.payload.pull_request.val
      decrypted == decrypt(encrypted, StringOf(secret))
      privateKey == parseDecryptedPrivateKey(decrypted.value).privateKey
      amount == parseUnits(NumberToString(request.amount), Answer("FetchingDecimals").value)
      permit == [permitted |-> [token |-> request.tokenAddress, amount |-> amount.value],
                 spender |-> walletAddress,
                 nonce |-> DeriveNonce(userId, issueNodeId),
                 deadline |-> MaxInt256]
      typedData == getPermitData(permit, PERMIT2_ADDRESS, evmNetworkId)
  IN  IF ~isPayload /\ ~Answer("UserLookup").ok
        THEN Error("", Answer("UserLookup").error)
      ELSE IF ~isPayload /\ ~Answer("UserLookup").data.some
        THEN Error("GitHub user was not found for id ", request.username)
      ELSE IF ~isPayload /\ ~Answer("WalletLookup").ok
        THEN Error("", Answer("WalletLookup").error)
      ELSE IF ~isPayload /\ ~cp.payload.issue.some /\ ~cp.payload.pull_request.some
        THEN Error("Issue Id is missing", "")
      ELSE IF FalsyStr(request.username)
        THEN Error("User was not found", "")
      ELSE IF FalsyStr(walletAddress)
        THEN Error("ERC20 Permit generation error: Wallet not found", "")
      ELSE IF FalsyStr(Answer("Resolving").value)
        THEN Error("Provider is not defined", "")
      ELSE IF ~decrypted.ok
        THEN Error("Failed to decrypt a private key: ", decrypted.error)
      ELSE IF FalsyStr(privateKey)
        THEN Error("Failed to decrypt a private key: ", "Error: Private key is not defined")
      ELSE IF privateKey \notin ValidKeys
        THEN Error("Failed to instantiate wallet: ", "TypeError: invalid private key")
      ELSE IF ~Answer("FetchingDecimals").ok
        THEN Error("Failed to get token decimals for token: ", request.tokenAddress)
      ELSE IF ~amount.ok
        THEN Error("", amount.error)
      ELSE IF ~CanSign(typedData.values)
        THEN Error("Failed to sign typed data ", "TypeError: invalid address")
      ELSE [kind |-> "permit",
            permit |-> [tokenType |-> TokenType.ERC20,
                        tokenAddress |-> request.tokenAddress,
                        beneficiary |-> walletAddress,
                        nonce |-> BigIntToString(permit.nonce),
                        deadline |-> BigIntToString(MaxInt256),
                        amount |-> BigIntToString(amount.value),
                        owner |-> AddressOf(privateKey),
                        signature |-> SignatureOf(privateKey,
                                        TypedDataHash(SignedDomain(typedData.domain),
                                                      typedData.types, typedData.values)),
                        networkId |-> evmNetworkId]]

\* C10: whatever the interleaving, the permit or error of an invocation that
\* has ended is the one that the same call gives when it runs alone with the
\* same answers of its collaborators; a step changes the variables of one
\* invocation only, and the decryption secret is never written.
C10_Independence ==
  /\ [](\A i \in Slots :
          pc[i] \in {"done", "failed"} => outcome[i] = Solo(args[i], env, trace[i]))
  /\ [][/\ env' = env
        /\ \A i, j \in Slots :
             i # j /\ <<pc[i], args[i], local[i], outcome[i], trace[i], cause[i]>>
                        # <<pc'[i], args'[i], local'[i], outcome'[i], trace'[i], cause'[i]>>
               => <<pc[j], args[j], local[j], outcome[j], trace[j], cause[j]>>
                    = <<pc'[j], args'[j], local'[j], outcome'[j], trace'[j], cause'[j]>>]_vars

\* two invocations under different keys have both ended with a permit, each
\* signed by its own key
C10_Witness ==
  /\ outcome[1].kind = "permit" /\ outcome[2].kind = "permit"
  /\ EncryptedKeyOf(1).plain = "K1" /\ EncryptedKeyOf(2).plain = "K2"
  /\ outcome[1].permit.owner = "0xA1" /\ outcome[2].permit.owner = "0xA2"

\* the steps that call a collaborator
CollaboratorSteps ==
  {"UserLookup", "WalletLookup", "Resolving", "Decrypting", "FetchingDecimals", "Signing"}

\* how often slot i has executed `step`
Attempts(i, step) == Cardinality({k \in 1..Len(trace[i]) : trace[i][k].step = step})

\* the collaborator of the trace entry e did not give what the handler needs
AnswerFailed(e) ==
  \/ ~e.answer.ok
  \/ e.step = "Resolving" /\ FalsyStr(e.answer.value)
  \/ e.step = "UserLookup" /\ ~e.answer.data.some

\* C11: within one invocation every collaborator step is attempted at most
\* once; a step whose collaborator failed (no provider, key not decryptable,
\* decimals unreadable, signing rejected) is the last step of the invocation,
\* which is then failed.
C11_NoRetries ==
  \A i \in Slots :
    /\ \A s \in CollaboratorSteps : Attempts(i, s) <= 1
    /\ \A k \in 1..Len(trace[i]) :
         AnswerFailed(trace[i][k]) => k = Len(trace[i]) /\ pc[i] = "failed"
    /\ InTrace(i, "Decrypting") /\ Undecryptable(i) =>
         LastStep(i) = "Decrypting" /\ pc[i] = "failed"
    /\ InTrace(i, "Signing") /\ ~CanSign(local[i].typedData.values) =>
         LastStep(i) = "Signing" /\ pc[i] = "failed"

\* the one read of the token decimals has failed and ended the invocation
C11_Witness ==
  \E i \in Slots :
    /\ pc[i] = "failed"
    /\ Attempts(i, "FetchingDecimals") = 1
    /\ LastStep(i) = "FetchingDecimals"
    /\ ~trace[i][Len(trace[i])].answer.ok

\* slot i has signed its typed data
Signed(i) == pc[i] \in {"assemble", "done"}

\* C12 as stated: the domain that an invocation has signed carries the chain
\* id of the request, for every network id: the domain passed to signTypedData
\* has chainId equal to the string form of the network id, and the signed
\* hash covers that chain id.
C12_Claim ==
  \A i \in Slots :
    Signed(i) =>
      /\ SignedDomain(local[i].typedData.domain).chainId = Some(IntToString(NetworkIdOf(i)))
      /\ "chainId" \in DOMAIN local[i].signature.digest.domain
      /\ local[i].signature.digest.domain["chainId"] = BigIntOfNat(NetworkIdOf(i))

\* C13: two permits returned for the same user and the same event carry the
\* same nonce, whatever their token address, amount, beneficiary, network id,
\* token decimals, call shape and signing key.
C13_NonceOfUserAndEventOnly ==
  \A i, j \in Slots :
    /\ outcome[i].kind = "permit" /\ outcome[j].kind = "permit"
    /\ local[i]._userId = local[j]._userId
    /\ local[i]._issueNodeId = local[j]._issueNodeId
    => outcome[i].permit.nonce = outcome[j].permit.nonce

\* two permits for one user and event, for different tokens, amounts,
\* beneficiaries and networks, with one nonce
C13_Witness ==
  \E i, j \in Slots :
    /\ outcome[i].kind = "permit" /\ outcome[j].kind = "permit"
    /\ local[i]._userId = local[j]._userId
    /\ local[i]._issueNodeId = local[j]._issueNodeId
    /\ outcome[i].permit.tokenAddress # outcome[j].permit.tokenAddress
    /\ args[i].amount # args[j].amount
    /\ outcome[i].permit.beneficiary # outcome[j].permit.beneficiary
    /\ outcome[i].permit.networkId # outcome[j].permit.networkId
    /\ outcome[i].permit.nonce = outcome[j].permit.nonce

\* the wallet lookup of slot i has answered
WalletLookedUp(i) ==
  \E k \in 1..Len(trace[i]) : trace[i][k].step = "WalletLookup" /\ trace[i][k].answer.ok

IssueIdMissing == Message("Issue Id is missing", "")

====
